---------------------------- MODULE Spec2Model ----------------------------
(***************************************************************************)
(* A model of gustasum (src/src/main.rs): partial checksums of files,      *)
(* generated by generate_mode and verified by verify_mode.                 *)
(*                                                                         *)
(* Strings (String, &str, PathBuf, error messages) are sequences of        *)
(* one-character strings, so that find, trim, lines, contains and the      *)
(* path operations are computed on characters as the code computes them.   *)
(* Sha256 is taken as collision-free: the digest of a byte string is the   *)
(* byte string itself, formatted in lowercase hex as format!("{:x}") does. *)
(***************************************************************************)
EXTENDS Integers, Sequences, FiniteSets, TLC

(***************************************************************************)
(* Bounds of the model.                                                    *)
(***************************************************************************)
\* the longest list of files (generate) or of check-file lines (verify)
MaxItems == 2

\* the largest --partial-bytes value
MaxPartial == 2

\* the largest size of a probed file, in bytes
MaxSize == 5

\* modification times are counted in ticks from the epoch, TicksPerSecond to
\* the second, from one tick before the epoch to MaxMTime ticks after it
TicksPerSecond == 2

MaxMTime == 3

(***************************************************************************)
(* String literals of the source.                                          *)
(***************************************************************************)
MetadataErrorPrefix == <<"m","e","t","a","d","a","t","a"," ","e","r","r","o","r",":"," ">>

FileOpenErrorPrefix == <<"f","i","l","e"," ","o","p","e","n"," ","e","r","r","o","r",":"," ">>

ReadFirstErrorPrefix == <<"r","e","a","d"," ","e","r","r","o","r"," ","(","f","i","r","s","t"," ","b","y","t","e","s",")",":"," ">>

SeekMiddleErrorPrefix == <<"s","e","e","k"," ","e","r","r","o","r"," ","(","m","i","d","d","l","e",")",":"," ">>

ReadMiddleErrorPrefix == <<"r","e","a","d"," ","e","r","r","o","r"," ","(","m","i","d","d","l","e"," ","b","y","t","e","s",")",":"," ">>

SeekEndErrorPrefix == <<"s","e","e","k"," ","e","r","r","o","r"," ","(","e","n","d",")",":"," ">>

ReadLastErrorPrefix == <<"r","e","a","d"," ","e","r","r","o","r"," ","(","l","a","s","t"," ","b","y","t","e","s",")",":"," ">>

NeedleReadError == <<"r","e","a","d"," ","e","r","r","o","r">>

NeedleIOError == <<"I","/","O"," ","e","r","r","o","r">>

NeedleEIO == <<"E","I","O">>

MalformedLine == <<"M","a","l","f","o","r","m","e","d"," ","l","i","n","e">>

ENOENT == <<"N","o"," ","s","u","c","h"," ","f","i","l","e"," ","o","r"," ","d","i","r","e","c","t","o","r","y"," ","(","o","s"," ","e","r","r","o","r"," ","2",")">>

EIO == <<"I","n","p","u","t","/","o","u","t","p","u","t"," ","e","r","r","o","r"," ","(","o","s"," ","e","r","r","o","r"," ","5",")">>

EREMOTEIO == <<"R","e","m","o","t","e"," ","I","/","O"," ","e","r","r","o","r"," ","(","o","s"," ","e","r","r","o","r"," ","1","2","1",")">>

OkSuffix == <<":"," ","O","K">>

TwoSpaces == <<" "," ">>

(***************************************************************************)
(* String operations of the standard library, on character sequences.      *)
(***************************************************************************)
\* s[from..] (1-based)
Drop(s, n) == SubSeq(s, n + 1, Len(s))

Take(s, n) == SubSeq(s, 1, n)

\* needle occurs in s at the 1-based position i
OccursAt(s, needle, i) == \A j \in 1..Len(needle) : s[i + j - 1] = needle[j]

\* str::find from the 1-based position i on, as a 0-based byte index;
\* -1 stands for None
RECURSIVE FindFrom(_, _, _)
FindFrom(s, needle, i) ==
    IF i + Len(needle) - 1 > Len(s) THEN -1
    ELSE IF OccursAt(s, needle, i) THEN i - 1
    ELSE FindFrom(s, needle, i + 1)

\* str::find
Find(s, needle) == FindFrom(s, needle, 1)

\* str::contains
Contains(s, needle) == Find(s, needle) # -1

IsWhitespace(c) == c = " " \/ c = "\t" \/ c = "\n" \/ c = "\r"

\* str::trim: strip leading and trailing whitespace
RECURSIVE TrimStart(_)
TrimStart(s) ==
    IF s # <<>> /\ IsWhitespace(Head(s)) THEN TrimStart(Tail(s)) ELSE s

RECURSIVE TrimEnd(_)
TrimEnd(s) ==
    IF s # <<>> /\ IsWhitespace(s[Len(s)]) THEN TrimEnd(Take(s, Len(s) - 1)) ELSE s

Trim(s) == TrimEnd(TrimStart(s))

\* str::lines: split at "\n", a final empty piece is dropped and one "\r"
\* before each "\n" (and at the end) is stripped
StripCR(s) == IF s # <<>> /\ s[Len(s)] = "\r" THEN Take(s, Len(s) - 1) ELSE s

RECURSIVE Lines(_)
Lines(s) ==
    IF s = <<>> THEN <<>>
    ELSE LET i == Find(s, <<"\n">>)
         IN  IF i = -1 THEN <<StripCR(s)>>
             ELSE <<StripCR(Take(s, i))>> \o Lines(Drop(s, i + 1))

(***************************************************************************)
(* std::path: a path string is read as an optional root and its names.     *)
(* Empty names (repeated separators) and "." names are skipped, except a   *)
(* leading "." of a relative path, as Path::components does.               *)
(***************************************************************************)
RECURSIVE SplitSep(_)
SplitSep(s) ==
    IF s = <<>> THEN << <<>> >>
    ELSE LET rest == SplitSep(Tail(s))
         IN  IF Head(s) = "/" THEN << <<>> >> \o rest
             ELSE << <<Head(s)>> \o Head(rest) >> \o Tail(rest)

Components(s) ==
    LET root  == s # <<>> /\ s[1] = "/"
        parts == SplitSep(s)
        kept  == { k \in 1..Len(parts) :
                      /\ parts[k] # <<>>
                      /\ (parts[k] = <<".">> => (k = 1 /\ ~root)) }
        Nth[n \in 0..Len(parts)] ==
            IF n = 0 THEN <<>>
            ELSE Nth[n - 1] \o (IF n \in kept THEN <<parts[n]>> ELSE <<>>)
    IN  [root |-> root, names |-> Nth[Len(parts)]]

\* Path::strip_prefix (iter_after): the names of path left after those of base,
\* <<FALSE, _>> when base is no prefix of path, component by component
RECURSIVE IterAfter(_, _)
IterAfter(names, prefix) ==
    IF prefix = <<>> THEN <<TRUE, names>>
    ELSE IF names = <<>> \/ Head(names) # Head(prefix) THEN <<FALSE, <<>>>>
    ELSE IterAfter(Tail(names), Tail(prefix))

StripPrefix(path, base) ==
    LET p == Components(path)
        b == Components(base)
    IN  IF p.root # b.root THEN <<FALSE, <<>>>> ELSE IterAfter(p.names, b.names)

\* Path::starts_with
StartsWith(path, base) == StripPrefix(path, base)[1]

\* the relative path made of names
RECURSIVE JoinNames(_)
JoinNames(names) ==
    IF names = <<>> THEN <<>>
    ELSE IF Len(names) = 1 THEN names[1]
    ELSE names[1] \o <<"/">> \o JoinNames(Tail(names))

\* Path::join (PathBuf::push): an absolute rel replaces base, otherwise rel is
\* appended after a separator unless base already ends with one or is empty
PathJoin(base, rel) ==
    IF rel # <<>> /\ rel[1] = "/" THEN rel
    ELSE IF base = <<>> \/ base[Len(base)] = "/" THEN base \o rel
    ELSE base \o <<"/">> \o rel

(***************************************************************************)
(* The file system the runs see: regular files with a modification time    *)
(* (seconds since the epoch) and their bytes.  A path names a file when     *)
(* its components are those of the file's path.                             *)
(***************************************************************************)
PathNA == <<"/","n","/","a">>

PathOA == <<"/","o","/","a">>

PathOB == <<"/","o","b">>

PathNC == <<"/","n","/","c"," ">>

BaseO == <<"/","o">>

BaseN == <<"/","n">>

\* the files of the disk: path, modification time in ticks, content
Files ==
    { [path |-> PathNA, mtime |-> TicksPerSecond, content |-> <<1, 2, 3, 4, 5>>],
      [path |-> PathOB, mtime |-> TicksPerSecond + 1, content |-> <<1, 2>>],
      [path |-> PathNC, mtime |-> TicksPerSecond, content |-> <<>>] }

\* the files with the components of their paths
FileIndex == { [file |-> f, where |-> Components(f.path)] : f \in Files }

Lookup(path) ==
    LET where == Components(path)
    IN  { x.file : x \in { y \in FileIndex : y.where = where } }

\* the OS error messages a failing disk produces (strerror texts)
OsErrors == {EIO, EREMOTEIO}

\* the file-system calls of one attempt, in the order the code makes them
Stages == {"metadata", "open", "read_first", "seek_middle", "read_middle",
           "seek_end", "read_last"}

\* what the file system does during one attempt: which call fails (if any) and
\* with which OS error, and whether reads return fewer bytes than asked for
\* A "healthy" disk never fails and reads in full; on a "flaky" one an open or
\* the read of the first window may fail with EIO; on a "failing" one every call
\* may fail with any of OsErrors and reads may be short.
Envs(d) ==
    { [fail |-> "none", os |-> <<>>, short |-> FALSE] }
    \cup (IF d = "flaky"
          THEN { [fail |-> st, os |-> EIO, short |-> FALSE] : st \in {"open", "read_first"} }
          ELSE {})
    \cup (IF d = "failing"
          THEN { [fail |-> "none", os |-> <<>>, short |-> TRUE] }
               \cup { [fail |-> st, os |-> e, short |-> FALSE] : st \in Stages, e \in OsErrors }
          ELSE {})

Min(a, b) == IF a < b THEN a ELSE b

\* a read that takes everything from offset to the end of the file
ReadToEnd(content, offset, n, short) == SubSeq(content, offset + 1, Len(content))

\* a read without the seek before it: from the start of the file
ReadAtStart(content, offset, n, short) == SubSeq(content, 1, Min(n, Len(content)))

\* Read::read into a buffer of n bytes at offset: the bytes available, at most
\* n of them; a short read returns one byte fewer (never 0 when data is left)
ReadAt(content, offset, n, short) ==
    LET avail == IF offset >= Len(content) THEN 0 ELSE Len(content) - offset
        full  == Min(n, avail)
        got   == IF short /\ full > 1 THEN full - 1 ELSE full
    IN  SubSeq(content, offset + 1, offset + got)

(***************************************************************************)
(* Result<String, String>                                                   *)
(***************************************************************************)
Ok(h) == [ok |-> TRUE, val |-> h]

Err(e) == [ok |-> FALSE, val |-> e]

(***************************************************************************)
(* The digest: Sha256 over mod_time_secs and size as 8 little-endian bytes  *)
(* each, then the three windows; printed in lowercase hex.                  *)
(***************************************************************************)
\* u64::to_le_bytes: the low byte first, width bytes in all
RECURSIVE LeBytes(_, _)
LeBytes(n, width) ==
    IF width = 0 THEN <<>> ELSE <<n % 256>> \o LeBytes(n \div 256, width - 1)

ToLeBytes(n) == LeBytes(n, 8)

HexDigits == <<"0","1","2","3","4","5","6","7","8","9","a","b","c","d","e","f">>

\* format!("{:x}", bytes)
RECURSIVE HexString(_)
HexString(bytes) ==
    IF bytes = <<>> THEN <<>>
    ELSE <<HexDigits[(Head(bytes) \div 16) + 1], HexDigits[(Head(bytes) % 16) + 1]>>
         \o HexString(Tail(bytes))

\* the hasher.update calls and finalize, Sha256 taken as collision-free
Digest(mod_time_secs, size, first_buf, middle_buf, last_buf) ==
    HexString(ToLeBytes(mod_time_secs) \o ToLeBytes(size)
              \o first_buf \o middle_buf \o last_buf)

(***************************************************************************)
(* do_compute_hash_for_file: one attempt, under the file-system behaviour   *)
(* env.  HashAttempt is the attempt on what the path resolves to (found, a  *)
(* set of at most one file) and returns the sample it takes with the        *)
(* result.                                                                  *)
(***************************************************************************)
\* a digest that takes the modification time whatever the flag
ModTimeAlways(modtime, mtime) ==
    IF mtime < 0 THEN 0 ELSE mtime \div TicksPerSecond

\* mod_time_secs: whole seconds since the epoch when the flag is set (0 for a
\* time before the epoch: duration_since fails, unwrap_or_default), else 0
ModTimeSecs(modtime, mtime) ==
    IF modtime
    THEN (IF mtime < 0 THEN 0 ELSE mtime \div TicksPerSecond)
    ELSE 0

NoSample == [size |-> 0, mod_time_secs |-> 0, first |-> <<>>, middle |-> <<>>, last |-> <<>>]

HashAttempt(found, pbytes, modtime, env) ==
    LET fail(prefix, os) == [res |-> Err(prefix \o os), sample |-> NoSample]
    IN
    IF env.fail = "metadata" THEN fail(MetadataErrorPrefix, env.os)
    ELSE IF found = {} THEN fail(MetadataErrorPrefix, ENOENT)
    ELSE
    LET file == CHOOSE f \in found : TRUE
        size == Len(file.content)
        mod_time_secs == ModTimeSecs(modtime, file.mtime)
        hasMiddle == size > pbytes * 2
        hasLast == size > pbytes
        first_buf == ReadAt(file.content, 0, pbytes, env.short)
        mid_offset == size \div 2
        middle_buf == IF hasMiddle
                      THEN ReadAt(file.content, mid_offset, pbytes, env.short)
                      ELSE <<>>
        end_offset == IF size >= pbytes THEN size - pbytes ELSE 0
        last_buf == IF hasLast
                    THEN ReadAt(file.content, end_offset, pbytes, env.short)
                    ELSE <<>>
    IN
    IF env.fail = "open" THEN fail(FileOpenErrorPrefix, env.os)
    ELSE IF env.fail = "read_first" THEN fail(ReadFirstErrorPrefix, env.os)
    ELSE IF hasMiddle /\ env.fail = "seek_middle" THEN fail(SeekMiddleErrorPrefix, env.os)
    ELSE IF hasMiddle /\ env.fail = "read_middle" THEN fail(ReadMiddleErrorPrefix, env.os)
    ELSE IF hasLast /\ env.fail = "seek_end" THEN fail(SeekEndErrorPrefix, env.os)
    ELSE IF hasLast /\ env.fail = "read_last" THEN fail(ReadLastErrorPrefix, env.os)
    ELSE [res |-> Ok(Digest(mod_time_secs, size, first_buf, middle_buf, last_buf)),
          sample |-> [size |-> size, mod_time_secs |-> mod_time_secs,
                      first |-> first_buf, middle |-> middle_buf, last |-> last_buf]]

do_compute_hash_for_file(path, pbytes, modtime, env) ==
    HashAttempt(Lookup(path), pbytes, modtime, env).res

\* is_transient_read_error
is_transient_read_error(err) ==
    Contains(err, NeedleReadError) \/ Contains(err, NeedleIOError) \/ Contains(err, NeedleEIO)

\* The number of times to retry on a read error
READ_RETRIES == 2

(***************************************************************************)
(* split_line and remap_path                                                *)
(***************************************************************************)
None == <<>>

Some(x) == <<x>>

\* split_line: Some((hash, path)) around the first "  ", None without one
split_line(line) ==
    LET idx == Find(line, TwoSpaces)
    IN  IF idx # -1
        THEN Some([hash |-> Take(line, idx), path |-> Drop(Drop(line, idx), 2)])
        ELSE None

\* a remap that replaces old_base as a prefix of the path's text
remap_path_text(original, ob, nb) ==
    IF Take(original, Len(ob)) = ob THEN nb \o Drop(original, Len(ob))
    ELSE original

\* remap_path
remap_path(original, ob, nb) ==
    LET stripped == StripPrefix(original, ob)
    IN  IF StartsWith(original, ob) /\ stripped[1]
        THEN PathJoin(nb, JoinNames(stripped[2]))
        ELSE original

(***************************************************************************)
(* Inputs of a run.                                                         *)
(***************************************************************************)
\* println!("{}  {}", hash, path.display())
FormatRecord(hash, path) == hash \o TwoSpaces \o path

HealthyEnv == [fail |-> "none", os |-> <<>>, short |-> FALSE]

\* the digest of the file at path on a healthy disk
DigestOf(path, pbytes, modtime) ==
    do_compute_hash_for_file(path, pbytes, modtime, HealthyEnv).val

\* the lines a check file may hold for the configuration: a record of /ob,
\* a record of /n/a under its old path /o/a, a record of /n/a with the digest
\* of another file, a line with a single space, and a line of white space
CheckLines(pbytes, modtime) ==
    { FormatRecord(DigestOf(PathOB, pbytes, modtime), PathOB),
      FormatRecord(DigestOf(PathNA, pbytes, modtime), PathOA),
      FormatRecord(DigestOf(PathOB, pbytes, modtime), PathNA),
      DigestOf(PathOB, pbytes, modtime) \o <<" ">> \o PathOB,
      <<" ">> }

SeqsUpTo(S, n) == UNION { [1..k -> S] : k \in 0..n }

\* the text of a sequence of lines, each ended by a newline
RECURSIVE Unlines(_)
Unlines(ls) ==
    IF ls = <<>> THEN <<>> ELSE Head(ls) \o <<"\n">> \o Unlines(Tail(ls))

CheckFiles(pbytes, modtime) ==
    { Unlines(ls) : ls \in SeqsUpTo(CheckLines(pbytes, modtime), MaxItems) }

\* the lists of files a directory walk may hand to generate_mode
FileLists == SeqsUpTo({ f.path : f \in Files }, MaxItems)

(***************************************************************************)
(* State.                                                                   *)
(***************************************************************************)
VARIABLES
    mode,             \* "generate" or "verify"
    skip_errors, show_progress, partial_bytes, include_modtime,
    old_base, new_base,   \* Option<PathBuf>
    disk,             \* "healthy", "flaky" or "failing", see Envs
    files,            \* generate_mode: the files found by the walk
    contents,         \* verify_mode: the text of the check file
    lines,            \* verify_mode: the trimmed non-empty lines
    pc,               \* "start", "fanout", "report", "exited"
    wstate,           \* per item: "todo", "running", "done"
    attempts,         \* per item: attempts of compute_hash_for_file so far
    last,             \* per item: res of the latest attempt
    parsed,           \* per item: expected_hash and file_str of the closure
    target,           \* per item: the path handed to compute_hash_for_file
    results,          \* the Vec filled by par_extend, one slot per item
    pos,              \* position of the progress bar
    cursor,           \* number of results the for loop has consumed
    successes,        \* successes (generate) / ok_count (verify)
    failures,         \* failures (generate) / fail_count (verify)
    out,              \* what the for loop printed, in order: the lines of
                      \* standard output and the diagnostics of standard error
    summary,          \* the summary line, once printed
    exit_code,        \* -1 while the process runs
    roundtrip,        \* TRUE when the check file is the output of a generate run
    probe             \* a single call of do_compute_hash_for_file on its own

vars == <<mode, skip_errors, show_progress, partial_bytes, include_modtime,
          old_base, new_base, disk, files, contents, lines, pc, wstate, attempts,
          last, parsed, target, results, pos, cursor, successes, failures, out,
          summary, exit_code, roundtrip, probe>>

config == <<mode, skip_errors, show_progress, partial_bytes, include_modtime,
            old_base, new_base, disk, roundtrip, probe>>

\* no call of do_compute_hash_for_file on its own
NoProbe == [phase |-> "none"]

\* a slot of results not yet written
EmptySlot == [filled |-> FALSE, expected |-> <<>>, path |-> <<>>, res |-> Err(<<>>)]

Slot(expected, path, res) ==
    [filled |-> TRUE, expected |-> expected, path |-> path, res |-> res]

\* the number of items of the run
Total == IF mode = "generate" THEN Len(files) ELSE Len(lines)

Items == 1..Total

ProcessStart ==
    /\ pc = "start"
    /\ lines = <<>>
    /\ wstate = <<>> /\ attempts = <<>> /\ last = <<>> /\ parsed = <<>>
    /\ target = <<>> /\ results = <<>>
    /\ pos = 0 /\ cursor = 0 /\ successes = 0 /\ failures = 0
    /\ out = <<>> /\ summary = None
    /\ exit_code = -1

\* runs on several items are explored with a progress bar, on a healthy or a
\* flaky disk; runs on at most one item with every flag and every disk
ManyItems == show_progress /\ disk # "failing"

Init ==
    /\ mode \in {"generate", "verify"}
    /\ skip_errors \in BOOLEAN
    /\ show_progress \in BOOLEAN
    /\ partial_bytes \in 0..MaxPartial
    /\ include_modtime \in BOOLEAN
    /\ disk \in {"healthy", "flaky", "failing"}
    /\ roundtrip = FALSE
    /\ probe = NoProbe
    /\ \/ /\ mode = "generate"
          /\ old_base = None /\ new_base = None
          /\ files \in FileLists
          /\ Len(files) > 1 => ManyItems
          /\ contents = <<>>
       \/ /\ mode = "verify"
          /\ \/ old_base = None /\ new_base = None
             \/ old_base = Some(BaseO) /\ new_base = Some(BaseN)
          /\ files = <<>>
          /\ contents \in CheckFiles(partial_bytes, include_modtime)
          /\ Len(Lines(contents)) > 1 => ManyItems
    /\ ProcessStart

(***************************************************************************)
(* generate_mode and verify_mode up to the fan-out.                         *)
(***************************************************************************)
\* contents.lines().map(|l| l.trim()).filter(|l| !l.is_empty()).collect()
RECURSIVE TrimmedLines(_)
TrimmedLines(ls) ==
    IF ls = <<>> THEN <<>>
    ELSE (IF Trim(Head(ls)) # <<>> THEN <<Trim(Head(ls))>> ELSE <<>>)
         \o TrimmedLines(Tail(ls))

\* res before the first attempt
NoResult == Err(<<>>)

NoRecord == [hash |-> <<>>, path |-> <<>>]

\* Vec::with_capacity(n) and the workers of par_extend, none started
StartFanout(n) ==
    /\ pc' = "fanout"
    /\ wstate' = [i \in 1..n |-> "todo"]
    /\ attempts' = [i \in 1..n |-> 0]
    /\ last' = [i \in 1..n |-> NoResult]
    /\ parsed' = [i \in 1..n |-> NoRecord]
    /\ target' = [i \in 1..n |-> <<>>]
    /\ results' = [i \in 1..n |-> EmptySlot]
    /\ pos' = 0

GenerateStart ==
    /\ pc = "start" /\ mode = "generate"
    /\ StartFanout(Len(files))
    /\ UNCHANGED <<config, files, contents, lines, cursor, successes, failures,
                   out, summary, exit_code>>

\* fs::read_to_string(check_file) succeeded
VerifyStart ==
    /\ pc = "start" /\ mode = "verify"
    /\ lines' = TrimmedLines(Lines(contents))
    /\ StartFanout(Len(lines'))
    /\ UNCHANGED <<config, files, contents, cursor, successes, failures,
                   out, summary, exit_code>>

\* fs::read_to_string(check_file) failed: exit(1) before any item
VerifyReadFail ==
    /\ pc = "start" /\ mode = "verify"
    /\ pc' = "exited"
    /\ exit_code' = 1
    /\ UNCHANGED <<config, files, contents, lines, wstate, attempts, last, parsed, target, results,
                   pos, cursor, successes, failures, out, summary>>

(***************************************************************************)
(* The closure a worker runs for item i.                                    *)
(***************************************************************************)
\* the path verify_mode hashes for a record path
Remapped(original_path, ob, nb) ==
    IF ob # None /\ nb # None THEN remap_path(original_path, ob[1], nb[1])
    ELSE original_path

\* a gather that pushes each value as its closure returns
FirstEmptySlot(i, slots) ==
    CHOOSE k \in DOMAIN slots :
        ~slots[k].filled /\ \A j \in 1..(k - 1) : slots[j].filled

\* the slot of results the closure's value for item i goes to
ResultIndex(i, slots) == i

\* bar.inc(1) when a bar is shown
\* a closure that never calls bar.inc
BarIncNever(p) == p

\* if let Some(bar) = &bar { bar.inc(1) }
BarInc(p) == IF show_progress THEN p + 1 ELSE p

\* the closure returns (expected, path, res) for item i
Complete(i, expected, path, res) ==
    /\ results' = [results EXCEPT ![ResultIndex(i, results)] = Slot(expected, path, res)]
    /\ wstate' = [wstate EXCEPT ![i] = "done"]
    /\ pos' = BarInc(pos)

\* the closure starts on item i of generate_mode
GenerateBegin(i) ==
    /\ parsed' = [parsed EXCEPT ![i] = [hash |-> <<>>, path |-> files[i]]]
    /\ target' = [target EXCEPT ![i] = files[i]]
    /\ wstate' = [wstate EXCEPT ![i] = "running"]
    /\ UNCHANGED <<results, pos>>

\* a closure that takes a line without a separator for a path with no digest
VerifyBeginLenient(i) ==
    LET sp == split_line(lines[i])
        rec == IF sp = None THEN [hash |-> <<>>, path |-> lines[i]] ELSE sp[1]
    IN  /\ parsed' = [parsed EXCEPT ![i] = rec]
        /\ target' = [target EXCEPT ![i] = Remapped(rec.path, old_base, new_base)]
        /\ wstate' = [wstate EXCEPT ![i] = "running"]
        /\ UNCHANGED <<results, pos>>

\* the closure starts on item i of verify_mode: a malformed line ends it at once
VerifyBegin(i) ==
    LET sp == split_line(lines[i])
    IN  IF sp = None
        THEN /\ Complete(i, <<>>, lines[i], Err(MalformedLine))
             /\ UNCHANGED <<parsed, target>>
        ELSE /\ parsed' = [parsed EXCEPT ![i] = sp[1]]
             /\ target' = [target EXCEPT ![i] = Remapped(sp[1].path, old_base, new_base)]
             /\ wstate' = [wstate EXCEPT ![i] = "running"]
             /\ UNCHANGED <<results, pos>>

Begin(i) ==
    /\ pc = "fanout" /\ wstate[i] = "todo"
    /\ IF mode = "generate" THEN GenerateBegin(i) ELSE VerifyBegin(i)
    /\ UNCHANGED <<config, files, contents, lines, pc, attempts, last, cursor,
                   successes, failures, out, summary, exit_code>>

\* a loop whose bound is one too many
ShouldRetryOnceMore(n, e) == n <= READ_RETRIES + 1 /\ is_transient_read_error(e)

\* a loop that does not retry when errors are to be skipped
ShouldRetryUnlessSkipping(n, e) ==
    ~skip_errors /\ n <= READ_RETRIES /\ is_transient_read_error(e)

\* attempts <= READ_RETRIES && is_transient_read_error(&e)
ShouldRetry(n, e) == n <= READ_RETRIES /\ is_transient_read_error(e)

\* a retry that resumes where the failed attempt stopped: after a failure at
\* the read of the last window it keeps the first and middle windows that
\* attempt had read and reads only the last one again
AttemptResumed(prev, found, env) ==
    LET now    == HashAttempt(found, partial_bytes, include_modtime, env)
        before == HashAttempt(found, partial_bytes, include_modtime, HealthyEnv).sample
    IN  IF /\ now.res.ok /\ ~prev.ok
           /\ Len(prev.val) >= Len(ReadLastErrorPrefix)
           /\ Take(prev.val, Len(ReadLastErrorPrefix)) = ReadLastErrorPrefix
        THEN Ok(Digest(now.sample.mod_time_secs, now.sample.size,
                       before.first, before.middle, now.sample.last))
        ELSE now.res

\* do_compute_hash_for_file(path, partial_bytes, include_modtime) called by
\* the loop, prev being the outcome of the attempt before: every call reads
\* the metadata, opens the file and fills new buffers
Attempt(prev, found, env) ==
    HashAttempt(found, partial_bytes, include_modtime, env).res

\* a loop that keeps the error of an earlier attempt and returns that one
ReturnedEarlier(prev, res) == IF ~res.ok /\ prev # NoResult THEN prev ELSE res

\* return Ok(hash) / return Err(e): what the loop returns when it ends at an
\* attempt with outcome res, prev being the outcome of the attempt before
Returned(prev, res) == res

\* one turn of the loop of compute_hash_for_file for item i
TryHash(i) ==
    /\ pc = "fanout" /\ wstate[i] = "running"
    /\ LET found == Lookup(target[i])
           n     == attempts[i] + 1
       IN  \E env \in Envs(disk) :
         LET res == Attempt(last[i], found, env)
         IN  /\ attempts' = [attempts EXCEPT ![i] = n]
             /\ last' = [last EXCEPT ![i] = res]
             /\ IF ~res.ok /\ ShouldRetry(n, res.val)
                THEN UNCHANGED <<results, wstate, pos>>
                ELSE Complete(i, parsed[i].hash, parsed[i].path, Returned(last[i], res))
    /\ UNCHANGED <<config, files, contents, lines, pc, parsed, target, cursor, successes,
                   failures, out, summary, exit_code>>

\* a fan-out that ends at the first closure that returns an error
FanoutCompleteOrFailed ==
    \/ \A i \in Items : wstate[i] = "done"
    \/ \E i \in Items : wstate[i] = "done" /\ ~results[i].res.ok

\* a fan-out whose join waits for every closure to return a digest
FanoutCompleteAllOk == \A i \in Items : wstate[i] = "done" /\ results[i].res.ok

\* every item's closure has returned
FanoutComplete == \A i \in Items : wstate[i] = "done"

\* par_extend returns when every item's closure has returned; the closures'
\* locals are gone
JoinFanout ==
    /\ pc = "fanout"
    /\ FanoutComplete
    /\ pc' = "report"
    /\ wstate' = <<>> /\ attempts' = <<>> /\ last' = <<>> /\ parsed' = <<>>
    /\ target' = <<>>
    /\ UNCHANGED <<config, files, contents, lines, results,
                   pos, cursor, successes, failures, out, summary, exit_code>>

(***************************************************************************)
(* The for loop over results, the summary and the exit status.              *)
(***************************************************************************)
\* a line of standard output
Printed(kind, path, text) == [stream |-> "stdout", kind |-> kind, path |-> path, text |-> text]

\* a diagnostic of standard error about path, with the error it shows
Diag(kind, path, err) == [stream |-> "stderr", kind |-> kind, path |-> path, text |-> err]

\* a loop of generate_mode that does not count the files it skips
GenerateReportSkipUncounted(r) ==
    IF r.res.ok
    THEN /\ out' = Append(out, Printed("record", r.path, FormatRecord(r.res.val, r.path)))
         /\ successes' = successes + 1
         /\ UNCHANGED failures
    ELSE /\ out' = Append(out, Diag(IF skip_errors THEN "Warning: Skipping file"
                                    ELSE "Error: Could not process file",
                                    r.path, r.res.val))
         /\ failures' = IF skip_errors THEN failures ELSE failures + 1
         /\ UNCHANGED successes

\* one iteration of the loop of generate_mode
GenerateReport(r) ==
    IF r.res.ok
    THEN /\ out' = Append(out, Printed("record", r.path, FormatRecord(r.res.val, r.path)))
         /\ successes' = successes + 1
         /\ UNCHANGED failures
    ELSE /\ out' = Append(out, Diag(IF skip_errors THEN "Warning: Skipping file"
                                    ELSE "Error: Could not process file",
                                    r.path, r.res.val))
         /\ failures' = failures + 1
         /\ UNCHANGED successes

\* a loop of verify_mode that does not compare the digests
VerifyReportUncompared(r) ==
    IF r.res.ok
    THEN /\ out' = Append(out, Printed("OK", r.path, r.path \o OkSuffix))
         /\ successes' = successes + 1
         /\ UNCHANGED failures
    ELSE /\ failures' = failures + 1
         /\ out' = Append(out, Diag(IF skip_errors THEN "Warning: Skipping file"
                                    ELSE "FAILED to compute hash",
                                    r.path, r.res.val))
         /\ UNCHANGED successes

\* one iteration of the loop of verify_mode
VerifyReport(r) ==
    IF r.res.ok
    THEN IF r.res.val = r.expected
         THEN /\ out' = Append(out, Printed("OK", r.path, r.path \o OkSuffix))
              /\ successes' = successes + 1
              /\ UNCHANGED failures
         ELSE /\ out' = Append(out, Diag("FAILED (mismatch)", r.path, <<>>))
              /\ failures' = failures + 1
              /\ UNCHANGED successes
    ELSE /\ failures' = failures + 1
         /\ out' = Append(out, Diag(IF skip_errors THEN "Warning: Skipping file"
                                    ELSE "FAILED to compute hash",
                                    r.path, r.res.val))
         /\ UNCHANGED successes

Report ==
    /\ pc = "report" /\ cursor < Len(results)
    /\ cursor' = cursor + 1
    /\ IF mode = "generate" THEN GenerateReport(results[cursor + 1])
       ELSE VerifyReport(results[cursor + 1])
    /\ UNCHANGED <<config, files, contents, lines, pc, wstate, attempts, last, parsed, target,
                   results, pos, summary, exit_code>>

\* an exit status that does not look at skip_errors
ExitStatusOfFailures(failed, skip) == IF failed > 0 THEN 1 ELSE 0

\* if failures > 0 && !skip_errors { exit(1) }, else the process ends with 0
ExitStatus(failed, skip) == IF failed > 0 /\ ~skip THEN 1 ELSE 0

Finish ==
    /\ pc = "report" /\ cursor = Len(results)
    /\ summary' = Some([total |-> Total, ok |-> successes, failed |-> failures])
    /\ exit_code' = ExitStatus(failures, skip_errors)
    /\ pc' = "exited"
    /\ UNCHANGED <<config, files, contents, lines, wstate, attempts, last, parsed, target, results,
                   pos, cursor, successes, failures, out>>

(***************************************************************************)
(* The use the help text shows: gustasum dir > sums; gustasum --check sums  *)
(* with the same --partial-bytes and --include-modtime and no --remap, on   *)
(* files that have not changed and a disk that does not fail.               *)
(***************************************************************************)
IsStdout(o) == o.stream = "stdout"

\* the text of standard output, line by line
StdoutLines ==
    LET sel == SelectSeq(out, IsStdout)
    IN  [k \in 1..Len(sel) |-> sel[k].text]

FeedToVerify ==
    /\ pc = "exited" /\ mode = "generate" /\ ~roundtrip
    /\ disk = "healthy"
    /\ mode' = "verify"
    /\ roundtrip' = TRUE
    /\ contents' = Unlines(StdoutLines)
    /\ pc' = "start"
    /\ lines' = <<>>
    /\ wstate' = <<>> /\ attempts' = <<>> /\ last' = <<>> /\ parsed' = <<>>
    /\ target' = <<>> /\ results' = <<>>
    /\ pos' = 0 /\ cursor' = 0 /\ successes' = 0 /\ failures' = 0
    /\ out' = <<>> /\ summary' = None
    /\ exit_code' = -1
    /\ UNCHANGED <<skip_errors, show_progress, partial_bytes, include_modtime,
                   old_base, new_base, disk, files, probe>>

Next ==
    \/ GenerateStart
    \/ VerifyStart
    \/ VerifyReadFail
    \/ \E i \in Items : Begin(i)
    \/ \E i \in Items : TryHash(i)
    \/ JoinFanout
    \/ Report
    \/ Finish
    \/ FeedToVerify

Spec == Init /\ [][Next]_vars

(***************************************************************************)
(* Fair scheduling: rayon runs every closure that has not returned, every   *)
(* file-system call returns, and the main thread goes on after the join.    *)
(***************************************************************************)
\* the closure of item i has not returned: its worker has a step to take
\* (Begin when it has not started, TryHash when it is in the retry loop)
Pending(i) == pc = "fanout" /\ i \in Items /\ wstate[i] # "done"

\* weak fairness of the worker of item i
WorkerFair(i) == []<>(~Pending(i)) \/ []<><<Begin(i) \/ TryHash(i)>>_vars

FairSpec ==
    /\ Spec
    /\ \A i \in 1..MaxItems : WorkerFair(i)
    /\ WF_vars(JoinFanout)
    /\ WF_vars(Report \/ Finish)

(***************************************************************************)
(* do_compute_hash_for_file as a function of its inputs: one call on a      *)
(* file of any size up to MaxSize and on a second file with the same        *)
(* content and another modification time, under the same behaviour of the   *)
(* file system.                                                             *)
(***************************************************************************)
\* a content of size bytes, all different
Bytes(size) == [k \in 1..size |-> k]

MTimes == (0 - 1)..MaxMTime

ProbeFile(content, mtime) == [path |-> <<>>, mtime |-> mtime, content |-> content]

\* the state of every variable of a run while a single call is looked at
NoRun ==
    /\ mode = "generate" /\ skip_errors = FALSE /\ show_progress = FALSE
    /\ old_base = None /\ new_base = None
    /\ disk = "failing"
    /\ roundtrip = FALSE
    /\ files = <<>> /\ contents = <<>>
    /\ ProcessStart

HashInit ==
    /\ NoRun
    /\ partial_bytes \in 0..MaxPartial
    /\ include_modtime \in BOOLEAN
    /\ probe \in { [phase |-> "called", content |-> Bytes(size), mtime |-> ta,
                    other_mtime |-> tb, env |-> e] :
                       size \in 0..MaxSize, ta \in MTimes, tb \in MTimes,
                       e \in Envs("failing") }

\* the call returns, for the file and for its twin
ProbeReturn ==
    /\ probe.phase = "called"
    /\ probe' = [phase |-> "returned", content |-> probe.content,
                 mtime |-> probe.mtime, other_mtime |-> probe.other_mtime,
                 env |-> probe.env,
                 one |-> HashAttempt({ProbeFile(probe.content, probe.mtime)},
                                     partial_bytes, include_modtime, probe.env),
                 other |-> HashAttempt({ProbeFile(probe.content, probe.other_mtime)},
                                       partial_bytes, include_modtime, probe.env)]
    /\ UNCHANGED <<mode, skip_errors, show_progress, partial_bytes, include_modtime,
                   old_base, new_base, disk, files, contents, lines, pc, wstate, attempts,
                   last, parsed, target, results, pos, cursor, successes, failures, out,
                   summary, exit_code, roundtrip>>

HashNext == ProbeReturn

HashSpec == HashInit /\ [][HashNext]_vars


(***************************************************************************)
(* Properties of the retry loop.                                            *)
(***************************************************************************)
IsPrefixOf(prefix, s) == Len(prefix) <= Len(s) /\ SubSeq(s, 1, Len(prefix)) = prefix

\* the fan-out is running and item i has had at least one attempt
Attempted(i) == pc = "fanout" /\ attempts[i] > 0

\* C1: compute_hash_for_file runs the single-attempt computation at most 3
\* times; it is between two attempts only after a failure that
\* is_transient_read_error classifies transient; what it returns is the outcome
\* of its latest attempt, and it returns before the third attempt only a
\* success or a failure that is not transient.
C1_RetryBounded ==
    pc = "fanout" =>
        \A i \in Items :
            /\ attempts[i] <= 3
            /\ (Attempted(i) /\ wstate[i] = "running") =>
                   (~last[i].ok /\ is_transient_read_error(last[i].val)
                    /\ attempts[i] < 3)
            /\ (Attempted(i) /\ wstate[i] = "done") =>
                   /\ results[i].res = last[i]
                   /\ attempts[i] < 3 =>
                          (last[i].ok \/ ~is_transient_read_error(last[i].val))

\* an item's computation gave up with a transient failure at its third attempt
C1_Witness ==
    /\ pc = "fanout"
    /\ \E i \in Items :
           /\ wstate[i] = "done" /\ attempts[i] = 3
           /\ ~results[i].res.ok /\ is_transient_read_error(results[i].res.val)

IsSeekError(e) == IsPrefixOf(SeekMiddleErrorPrefix, e) \/ IsPrefixOf(SeekEndErrorPrefix, e)

\* C6: a failure at a seek step (middle or last window) is retried: the
\* computation returns a seek failure only at its third attempt.
C6_SeekRetried ==
    pc = "fanout" =>
        \A i \in Items :
            (Attempted(i) /\ wstate[i] = "done" /\ ~last[i].ok /\ IsSeekError(last[i].val))
                => attempts[i] = 3

IsMetadataOrOpenError(e) ==
    IsPrefixOf(MetadataErrorPrefix, e) \/ IsPrefixOf(FileOpenErrorPrefix, e)

\* C7: a metadata failure or a file-open failure is never retried, whatever
\* the message of the operating system: the computation returns it after
\* exactly one attempt.
C7_MetadataOpenNotRetried ==
    pc = "fanout" =>
        \A i \in Items :
            (Attempted(i) /\ ~last[i].ok /\ IsMetadataOrOpenError(last[i].val))
                => (wstate[i] = "done" /\ attempts[i] = 1)

(***************************************************************************)
(* Properties of the fan-out and of the reports.                            *)
(***************************************************************************)
\* a line holds two spaces in a row
WellFormed(line) ==
    \E k \in 1..(Len(line) - 1) : line[k] = " " /\ line[k + 1] = " "

\* the run has gathered its results
Gathered == pc = "report" \/ (pc = "exited" /\ summary # None)

\* the path and the recorded digest of input item i
ItemPath(i) ==
    IF mode = "generate" THEN files[i]
    ELSE IF WellFormed(lines[i]) THEN split_line(lines[i])[1].path
    ELSE lines[i]

ItemExpected(i) ==
    IF mode = "verify" /\ WellFormed(lines[i]) THEN split_line(lines[i])[1].hash
    ELSE <<>>

\* C2: in both modes and for every order in which the workers return, the
\* results have one entry per input item, a filled entry i holds the path and
\* the recorded digest of input item i, every entry is filled once the fan-out
\* has ended, and the k-th report of the loop is about input item k.
C2_OrderPreserved ==
    /\ (pc = "fanout" \/ Gathered) =>
           /\ Len(results) = Total
           /\ \A i \in Items :
                  results[i].filled =>
                      /\ results[i].path = ItemPath(i)
                      /\ results[i].expected = ItemExpected(i)
    /\ pc = "fanout" => \A i \in Items : results[i].filled <=> wstate[i] = "done"
    /\ Gathered =>
           /\ \A i \in Items : results[i].filled
           /\ Len(out) = cursor
           /\ \A k \in 1..cursor : out[k].path = ItemPath(k)

\* the worker of the second item has returned before the worker of the first
C2_Witness ==
    /\ pc = "fanout" /\ Total >= 2
    /\ results[2].filled /\ ~results[1].filled
    /\ ItemPath(1) # ItemPath(2)

\* a result the loop counts as a success
IsOkResult(r) == r.res.ok /\ (mode = "verify" => r.res.val = r.expected)

FailedItems == {i \in 1..Len(results) : ~IsOkResult(results[i])}

\* C3 as stated: a run ends with exit status 1 exactly when at least one item
\* failed and skip_errors is not set, and with exit status 0 otherwise.
C3_ExitStatusOfItems ==
    pc = "exited" =>
        exit_code = (IF FailedItems # {} /\ ~skip_errors THEN 1 ELSE 0)

\* C3: a run that has gathered its results ends with exit status 1 exactly when
\* at least one item failed (in verify_mode: a mismatch, a failed computation
\* or a malformed line) and skip_errors is not set, and with 0 otherwise; a
\* verify run whose check file cannot be read ends with exit status 1 before
\* any item, whatever skip_errors is.
C3_ExitStatus ==
    pc = "exited" =>
        IF summary = None
        THEN mode = "verify" /\ results = <<>> /\ exit_code = 1
        ELSE exit_code = (IF FailedItems # {} /\ ~skip_errors THEN 1 ELSE 0)

\* a run with a failed item and skip_errors set has ended with status 0
C3_Witness ==
    /\ pc = "exited" /\ summary # None
    /\ FailedItems # {} /\ skip_errors /\ exit_code = 0

\* C4: when the records generate_mode wrote are fed to verify_mode with no
\* remap, unchanged files and the same flags, every record is reported OK.
C4_RoundTripAllOk ==
    (roundtrip /\ Gathered) =>
        /\ failures = 0
        /\ \A k \in 1..Len(out) : out[k].kind = "OK"

FailedKinds == {"FAILED (mismatch)", "FAILED to compute hash"}

\* the record of line k is well-formed and the loop has reported it
Reported(k) == mode = "verify" /\ Gathered /\ k \in 1..cursor /\ WellFormed(lines[k])

\* C5 as stated: a well-formed record is reported OK iff its computation
\* succeeded and the digests are equal, and FAILED otherwise.
C5_OkOrFailed ==
    \A k \in 1..Len(out) :
        Reported(k) =>
            /\ out[k].kind = "OK" <=> IsOkResult(results[k])
            /\ out[k].kind \in {"OK"} \cup FailedKinds

\* C5: a well-formed record is reported OK iff its computation succeeded and
\* the computed digest equals the recorded one; otherwise it is counted as a
\* failure and reported FAILED (mismatch) when the digests differ, FAILED to
\* compute hash when the computation failed and skip_errors is not set, and by
\* a warning that the file is skipped when the computation failed and
\* skip_errors is set; each record gets exactly one report.
C5_VerifyReport ==
    (mode = "verify" /\ Gathered) =>
        /\ Len(out) = cursor
        /\ failures = Cardinality({k \in 1..cursor : out[k].kind # "OK"})
        /\ \A k \in 1..cursor :
               Reported(k) =>
                   /\ out[k].path = results[k].path
                   /\ out[k].kind =
                          IF IsOkResult(results[k]) THEN "OK"
                          ELSE IF results[k].res.ok THEN "FAILED (mismatch)"
                          ELSE IF skip_errors THEN "Warning: Skipping file"
                          ELSE "FAILED to compute hash"

\* a well-formed record whose computation failed was reported with skip_errors set
C5_Witness ==
    \E k \in 1..Len(out) :
        Reported(k) /\ ~results[k].res.ok /\ skip_errors

\* the path verify_mode or generate_mode hashes for item i
ItemTarget(i) ==
    IF mode = "generate" THEN files[i]
    ELSE Remapped(ItemPath(i), old_base, new_base)

\* the results item i can get when it is the only item: an attempt's outcome
\* on this disk (a success or a failure that is not transient at once, a
\* transient failure after the last retry), or the malformed line's error
AloneResults(i) ==
    IF mode = "verify" /\ ~WellFormed(lines[i]) THEN {Err(MalformedLine)}
    ELSE {HashAttempt(Lookup(ItemTarget(i)), partial_bytes, include_modtime, env).res :
              env \in Envs(disk)}

\* C8: whatever items fail, every item is processed and its result is one it
\* can get when processed alone; the fan-out ends only when every item has its
\* result, and the loop then goes over all N results.
C8_Isolation ==
    /\ pc = "fanout" =>
           \A i \in Items : wstate[i] = "done" => results[i].res \in AloneResults(i)
    /\ pc = "report" =>
           \A i \in Items :
               /\ results[i].filled
               /\ cursor = 0 => results[i].res \in AloneResults(i)
    /\ (pc = "exited" /\ summary # None) =>
           /\ cursor = Total
           /\ successes + failures = Total

\* the first item failed and the second item has its digest
C8_Witness ==
    /\ pc = "report" /\ Total >= 2
    /\ ~results[1].res.ok /\ results[2].res.ok

\* C9: a line of the check file without a two-space separator is counted as a
\* failure, and no path is looked up, nothing is computed and nothing is
\* retried for it.
C9_MalformedLine ==
    mode = "verify" =>
        /\ \A i \in 1..Len(lines) :
               ~WellFormed(lines[i]) =>
                   /\ pc = "fanout" =>
                          /\ attempts[i] = 0 /\ target[i] = <<>>
                          /\ wstate[i] # "running"
                          /\ wstate[i] = "done" => ~results[i].res.ok
                   /\ Gathered =>
                          /\ ~results[i].res.ok
                          /\ i <= cursor => out[i].kind # "OK"
        /\ (pc = "exited" /\ summary # None) =>
               failures >= Cardinality({i \in 1..Len(lines) : ~WellFormed(lines[i])})

\* the closure of a malformed line has returned
C9_Witness ==
    /\ mode = "verify" /\ pc = "fanout"
    /\ \E i \in Items : ~WellFormed(lines[i]) /\ wstate[i] = "done"

\* the components of base are the first components of path
ComponentPrefix(path, base) ==
    LET cp == Components(path)
        cb == Components(base)
    IN  /\ cp.root = cb.root
        /\ Len(cb.names) <= Len(cp.names)
        /\ SubSeq(cp.names, 1, Len(cb.names)) = cb.names

\* the closure of item i has the path it looks up
Looked(i) ==
    /\ mode = "verify" /\ pc = "fanout"
    /\ wstate[i] # "todo" /\ WellFormed(lines[i])

\* C10: when both bases are given and the record's path starts with old_base,
\* component by component, the file is looked up at new_base followed by the
\* components of the path after old_base; otherwise at the path unchanged.
C10_Remap ==
    \A i \in 1..Len(target) :
        Looked(i) =>
            LET p == ItemPath(i)
            IN  IF old_base # None /\ new_base # None /\ ComponentPrefix(p, old_base[1])
                THEN LET cp == Components(p)
                         cb == Components(old_base[1])
                         cn == Components(new_base[1])
                     IN  Components(target[i]) =
                             [root  |-> cn.root,
                              names |-> cn.names
                                        \o SubSeq(cp.names, Len(cb.names) + 1, Len(cp.names))]
                ELSE target[i] = p

\* a record's path under old_base is looked up at another path
C10_Witness ==
    \E i \in 1..Len(target) :
        /\ Looked(i) /\ old_base # None
        /\ ComponentPrefix(ItemPath(i), old_base[1])
        /\ target[i] # ItemPath(i)

(***************************************************************************)
(* Properties of a single call of do_compute_hash_for_file.                 *)
(***************************************************************************)
\* the call on the file and the call on its twin have both returned a digest
BothHashed == probe.phase = "returned" /\ probe.one.res.ok /\ probe.other.res.ok

\* the whole second since the epoch a time falls in, 0 for a time before it
SecondOf(t) ==
    IF t < 0 THEN 0
    ELSE CHOOSE sec \in 0..t :
             sec * TicksPerSecond <= t /\ t < (sec + 1) * TicksPerSecond

\* C11 as stated: two files of identical size and content have equal digests
\* when include_modtime is false, and different digests when include_modtime
\* is true and their modification times differ.
C11_ModtimeToggle ==
    BothHashed =>
        /\ ~include_modtime => probe.one.res.val = probe.other.res.val
        /\ (include_modtime /\ probe.mtime # probe.other_mtime) =>
               probe.one.res.val # probe.other.res.val

\* C11: two files of identical size and content have equal digests when
\* include_modtime is false; when it is true their digests differ exactly when
\* the two modification times fall in different whole seconds since the epoch,
\* a time before the epoch counting as second 0.
C11_ModtimeSeconds ==
    BothHashed =>
        /\ ~include_modtime => probe.one.res.val = probe.other.res.val
        /\ include_modtime =>
               (probe.one.res.val # probe.other.res.val
                    <=> SecondOf(probe.mtime) # SecondOf(probe.other_mtime))

\* with include_modtime two times in different seconds gave different digests
C11_Witness ==
    /\ BothHashed /\ include_modtime
    /\ SecondOf(probe.mtime) # SecondOf(probe.other_mtime)
    /\ probe.one.res.val # probe.other.res.val

(***************************************************************************)
(* Properties of the flags and of the reports.                              *)
(***************************************************************************)
\* the line standard output gets for a result the loop counts as a success
OkLine(r) ==
    IF mode = "generate" THEN FormatRecord(r.res.val, r.path) ELSE r.path \o OkSuffix

\* the lines of standard output for the first k results
RECURSIVE OkLines(_)
OkLines(k) ==
    IF k = 0 THEN <<>>
    ELSE OkLines(k - 1)
         \o (IF IsOkResult(results[k]) THEN <<OkLine(results[k])>> ELSE <<>>)

\* C12: what a run does is fixed by its input and by what the file system
\* does, whatever skip_errors is: after each attempt an item is retried
\* exactly when the attempt failed with a transient error and fewer than 3
\* attempts were made, its result is the outcome of its latest attempt, and
\* the counts, the lines of standard output, the error shown by each
\* diagnostic and the summary are given by the results alone; skip_errors is
\* read only for the wording of a diagnostic and for the exit status.
C12_SkipErrorsFrame ==
    /\ pc = "fanout" =>
           \A i \in Items :
               Attempted(i) =>
                   /\ wstate[i] = "running" <=>
                          (~last[i].ok /\ is_transient_read_error(last[i].val)
                           /\ attempts[i] <= READ_RETRIES)
                   /\ wstate[i] = "done" => results[i].res = last[i]
    /\ Gathered =>
           /\ successes = Cardinality({k \in 1..cursor : IsOkResult(results[k])})
           /\ failures = cursor - successes
           /\ StdoutLines = OkLines(cursor)
           /\ \A k \in 1..cursor :
                  ~results[k].res.ok =>
                      (out[k].stream = "stderr" /\ out[k].text = results[k].res.val)
           /\ summary # None =>
                  summary[1] = [total |-> Total, ok |-> successes, failed |-> failures]

\* with skip_errors set an item was given up after its third attempt
C12_Witness ==
    /\ pc = "fanout" /\ skip_errors
    /\ \E i \in Items : wstate[i] = "done" /\ attempts[i] = 3 /\ ~last[i].ok

\* the lines of the check file that are not blank, as the file holds them
RECURSIVE NonBlank(_)
NonBlank(ls) ==
    IF ls = <<>> THEN <<>>
    ELSE (IF Trim(Head(ls)) # <<>> THEN <<Head(ls)>> ELSE <<>>) \o NonBlank(Tail(ls))

\* the text after the first two-space separator of line k of the check file
SuppliedPath(k) == split_line(NonBlank(Lines(contents))[k])[1].path

\* C13: the path every report of verify_mode shows for a well-formed record
\* is the path of the record exactly as the check file holds it, whether or
\* not the path was remapped to find the file.
C13_PathAsSupplied ==
    \A k \in 1..Len(out) :
        Reported(k) => out[k].path = SuppliedPath(k)

(***************************************************************************)
(* Properties of the sample one call takes.                                 *)
(***************************************************************************)
\* the call on the file has returned a digest
Hashed == probe.phase = "returned" /\ probe.one.res.ok

\* C14: in every successful attempt, whatever the reads return, each of the
\* three windows has at most partial_bytes bytes, the middle window is empty
\* unless size > 2 * partial_bytes and the last window is empty unless
\* size > partial_bytes, size being the size metadata gives.
C14_SampleBounds ==
    Hashed =>
        LET smp == probe.one.sample
        IN  /\ smp.size = Len(probe.content)
            /\ Len(smp.first) <= partial_bytes
            /\ Len(smp.middle) <= partial_bytes
            /\ Len(smp.last) <= partial_bytes
            /\ smp.middle # <<>> => smp.size > 2 * partial_bytes
            /\ smp.last # <<>> => smp.size > partial_bytes

\* a successful attempt whose reads were short took a middle window
C14_Witness ==
    /\ Hashed /\ probe.env.short
    /\ probe.one.sample.middle # <<>>
    /\ Len(probe.one.sample.middle) < partial_bytes

\* C15: when every read returns all the bytes there are up to the request,
\* first is bytes [0, min(S, P)), middle is bytes [S/2, S/2 + P) when S > 2P
\* and empty otherwise, last is bytes [S - P, S) when S > P and empty
\* otherwise; for S <= P first is the whole file, and a middle or last window
\* that is not empty has exactly P bytes.
C15_WindowPositions ==
    (Hashed /\ ~probe.env.short) =>
        LET smp  == probe.one.sample
            data == probe.content
            S    == Len(data)
            P    == partial_bytes
        IN  /\ smp.first = SubSeq(data, 1, IF S < P THEN S ELSE P)
            /\ smp.middle = IF S > 2 * P
                            THEN SubSeq(data, (S \div 2) + 1, (S \div 2) + P)
                            ELSE <<>>
            /\ smp.last = IF S > P THEN SubSeq(data, S - P + 1, S) ELSE <<>>
            /\ S <= P => smp.first = data
            /\ smp.middle # <<>> => Len(smp.middle) = P
            /\ smp.last # <<>> => Len(smp.last) = P

\* a file longer than 2 * partial_bytes was read in full reads
C15_Witness ==
    /\ Hashed /\ ~probe.env.short
    /\ partial_bytes > 0 /\ Len(probe.content) > 2 * partial_bytes
    /\ probe.one.sample.middle # probe.one.sample.first
    /\ probe.one.sample.last # probe.one.sample.middle

(***************************************************************************)
(* The error of an exhausted retry loop.                                    *)
(***************************************************************************)
\* the errors one attempt on item i can raise, as do_compute_hash_for_file
\* words them (stage prefix, then the message of the operating system)
RaisedErrors(i) ==
    { r \in { HashAttempt(Lookup(target[i]), partial_bytes, include_modtime, env).res :
                  env \in Envs(disk) } : ~r.ok }

\* item i has returned a failure from its third attempt
Exhausted(i) ==
    pc = "fanout" /\ wstate[i] = "done" /\ attempts[i] = READ_RETRIES + 1
    /\ ~results[i].res.ok

\* C16: when the third attempt of compute_hash_for_file fails, the error
\* returned is the error of that attempt, unchanged, worded with the stage at
\* which it was raised, not an error of an earlier attempt.
C16_LastErrorReturned ==
    \A i \in Items :
        Exhausted(i) =>
            /\ results[i].res = last[i]
            /\ results[i].res \in RaisedErrors(i)

\* three attempts failed with transient errors, the third at the read of the
\* last window
C16_Witness ==
    \E i \in Items :
        /\ Exhausted(i)
        /\ is_transient_read_error(results[i].res.val)
        /\ IsPrefixOf(ReadLastErrorPrefix, results[i].res.val)

(***************************************************************************)
(* The progress counter.                                                    *)
(***************************************************************************)
\* the items whose closure has returned
Returns == { i \in Items : wstate[i] = "done" }

\* with a progress bar, the counter is the number of closures that have
\* returned, at most the number of items, and all of them after the fan-out
ProgressCounts ==
    show_progress =>
        /\ pos <= Total
        /\ pc = "fanout" => pos = Cardinality(Returns)
        /\ Gathered => pos = Total

\* a step of the fan-out adds one to the counter exactly when a closure
\* returns in it (with a digest, an error or a malformed line) and leaves it
\* alone otherwise; the counter never goes down while the process runs
ProgressStep ==
    (show_progress /\ pc' # "start") =>
        /\ pos' >= pos
        /\ (pc = "fanout" /\ pc' = "fanout") =>
               /\ pos' = pos + 1 <=>
                      \E i \in Items : wstate[i] # "done" /\ wstate'[i] = "done"
               /\ pos' \in {pos, pos + 1}

\* C17: with a progress bar, in both modes the counter is incremented exactly
\* once per item, when its closure returns (success, failure or malformed
\* line), and never for a retry; in every interleaving it never decreases,
\* never exceeds the number of items and equals it when the fan-out is over.
C17_ProgressCounter == [](ProgressCounts) /\ [][ProgressStep]_vars

\* one of two items has returned while the other is between two attempts
C17_Witness ==
    /\ show_progress /\ pc = "fanout" /\ Total = 2 /\ pos = 1
    /\ \E i \in Items : wstate[i] = "running" /\ attempts[i] >= 1

(***************************************************************************)
(* Run to completion.                                                       *)
(***************************************************************************)
\* the process has ended after the summary, with every item reported
Completed ==
    /\ pc = "exited" /\ summary # None
    /\ Len(results) = Total /\ cursor = Total
    /\ \A k \in 1..Total : results[k] # EmptySlot

\* a process that ended without a summary did so before any item was worked
\* on: the check file could not be read
EarlyExitBeforeItems ==
    (pc = "exited" /\ summary = None) =>
        /\ mode = "verify" /\ exit_code = 1
        /\ results = <<>> /\ out = <<>> /\ pos = 0

\* C18: once the fan-out has begun, under fair scheduling of the workers and
\* with every file-system call returning, the run finishes all items and
\* prints the summary; the only exit without a summary is the one for an
\* unreadable check file, before any item is worked on.
C18_RunToCompletion == [](EarlyExitBeforeItems) /\ ((pc = "fanout") ~> Completed)

\* a run that went on to its summary after an item had failed
C18_Witness ==
    /\ Completed /\ Total = MaxItems
    /\ \E k \in 1..Total : ~results[k].res.ok

(***************************************************************************)
(* The summary.                                                             *)
(***************************************************************************)
\* the lines of standard output of the given kind
StdoutOfKind(kind) == { k \in 1..Len(out) : IsStdout(out[k]) /\ out[k].kind = kind }

\* C19: every item is counted exactly once: while the results are reported
\* the two counts add up to the number of results seen, and in the summary
\* succeeded + failed (generate_mode) and OK + FAILED (verify_mode) equal the
\* total, which is the number of items; the record lines generate_mode wrote
\* to standard output are as many as its succeeded count, and the OK lines
\* verify_mode wrote are as many as its OK count.
C19_SummaryAccounting ==
    /\ Gathered => successes + failures = cursor
    /\ (pc = "exited" /\ summary # None) =>
           LET s == summary[1]
           IN  /\ s.total = Total /\ s.total = Len(results)
               /\ s.ok + s.failed = s.total
               /\ Cardinality(StdoutOfKind(IF mode = "generate" THEN "record" ELSE "OK")) = s.ok
               /\ Cardinality({ k \in 1..Len(out) : IsStdout(out[k]) }) = s.ok

\* a summary of two items, one counted as succeeded and one as failed
C19_Witness ==
    /\ pc = "exited" /\ summary # None
    /\ summary[1] = [total |-> 2, ok |-> 1, failed |-> 1]

(***************************************************************************)
(* Attempts are independent of each other.                                  *)
(***************************************************************************)
\* what one call of do_compute_hash_for_file on the file of item i can
\* return, by itself, under each behaviour of the file system: a digest of
\* the size, modification time and windows read in that call, or an error
FreshOutcomes(i) ==
    { IF a.res.ok
      THEN Ok(Digest(a.sample.mod_time_secs, a.sample.size,
                     a.sample.first, a.sample.middle, a.sample.last))
      ELSE a.res :
        a \in { HashAttempt(Lookup(target[i]), partial_bytes, include_modtime, env) :
                   env \in Envs(disk) } }

\* C20: every attempt of compute_hash_for_file starts over: whatever attempts
\* failed before it, its outcome is one a single call on the file gives by
\* itself, a failure at the metadata read or the open included, and a digest
\* returned after failed attempts is the digest of the size, modification
\* time and windows read in the final attempt alone.
C20_AttemptFreshness ==
    \A i \in Items :
        Attempted(i) =>
            /\ last[i] \in FreshOutcomes(i)
            /\ wstate[i] = "done" => results[i].res \in FreshOutcomes(i)

\* a digest returned by the third attempt, whose reads were short, after two
\* failed attempts
C20_Witness ==
    \E i \in Items :
        /\ pc = "fanout" /\ wstate[i] = "done" /\ attempts[i] = READ_RETRIES + 1
        /\ results[i].res.ok
        /\ results[i].res #
               HashAttempt(Lookup(target[i]), partial_bytes, include_modtime, HealthyEnv).res

====
